---- MODULE Spec2Model ----
(***************************************************************************)
(* Campus lost-and-found: the matching / negotiation engine and the        *)
(* confirmation, scheduling and return state machine.                      *)
(*                                                                         *)
(* The database is the shared state.  Every HTTP handler runs in one       *)
(* database transaction and is one action.  The background task            *)
(* run_auto_matching runs in a thread of its own, with its own database    *)
(* session, and commits many times: each of its transactions (the code     *)
(* from one db.commit() to the next) is one step of a worker.              *)
(***************************************************************************)
EXTENDS Integers, Sequences, FiniteSets, TLC

\* ---------------------------------------------------------------- bounds
MaxRuns == 2          \* background matching tasks started in one behaviour
MaxTail == 2          \* scripted decisions after the padding (SpecNeg)
MaxForce == 1         \* forced overrides of one session
MaxCalls == 4         \* handler calls that write to the database

\* ------------------------------------------------------ program constants
MAX_NEGOTIATION_ROUNDS == 20
MIN_MATCH_SCORE == 3000           \* 0.3, in units of 1/10000 (round(x, 4))
FIND_LIMIT == 10                  \* find_matches(lost_item, limit=10)

NULL == 0                         \* a NULL column (nullable foreign key)

\* ------------------------------------------------------------ the fixture
\* init_test_data.py style content: items inserted with status OPEN.
LostIds == {1, 2}
FoundIds == {3, 4, 5, 6}
ItemIds == LostIds \cup FoundIds
Users == {"alice", "bob", "carol"}
Workers == {1, 2}          \* threads of the background task pool

ItemType(i) == IF i \in LostIds THEN "LOST" ELSE "FOUND"

owner_id(i) == CASE i = 1 -> "alice"
                 [] i = 2 -> "alice"
                 [] i = 3 -> "bob"
                 [] i = 4 -> "carol"
                 [] i = 5 -> "alice"
                 [] i = 6 -> "carol"

\* calculate_match_score of the fixture's texts, in units of 1/10000.
calculate_match_score(l, f) == CASE l = 1 /\ f = 3 -> 5000
                                 [] l = 1 /\ f = 4 -> 5000
                                 [] l = 2 /\ f = 3 -> 9000
                                 [] l = 2 /\ f = 4 -> 3000
                                 [] l = 1 /\ f = 5 -> 9500
                                 [] l = 2 /\ f = 5 -> 9500
                                 [] l = 1 /\ f = 6 -> 2999
                                 [] l = 2 /\ f = 6 -> 2999
                                 [] OTHER -> 0

\* the images uploaded with the items: one for item 1 and for item 3
image_paths(i) == IF i \in {1, 3} THEN 1 ELSE 0

ItemStatus == {"OPEN", "MATCHING", "NEGOTIATING", "MATCHED", "CLOSED"}

NegotiationStatus == {"ACTIVE", "SUCCESS", "FAILED", "PENDING_CONFIRM",
                      "CONFIRMED", "REJECTED", "SCHEDULE_PENDING",
                      "WAITING_RETURN", "RETURNED", "RETURN_FAILED"}

\* Column(Boolean, nullable=True): None / True / False
Tri == {"None", "True", "False"}

\* action tags a decision function can return; "WAVE" is a tag outside the
\* protocol vocabulary, "NONE" a missing tag (JSON null)
KnownTags == {"ASK", "ANSWER", "CONFIRM", "PROPOSE_MEET", "AGREE", "REJECT"}
Tags == KnownTags \cup {"WAVE", "NONE"}

Proposals == {"p1", "p2"}
Reasons == {"", " ", "busy", " busy "}

\* ------------------------------------------------------------------ state
VARIABLES
    items,       \* tables items and item_images: id -> row, number of images
    sessions,    \* table negotiation_sessions: row id = position
    schedules,   \* table return_schedules: session id -> its rows, oldest first
    failed,      \* table failed_matches
    workers,     \* the background tasks (run_background_matching threads)
    runs,        \* background tasks started so far
    calls,       \* handler calls that changed the database so far
    http,        \* the response to the last handler call that is observed
    ret          \* the last call of calculate_match_score: arguments, value

vars == <<items, sessions, schedules, failed, workers, runs, calls, http, ret>>
db == <<items, sessions, schedules, failed>>

GoneItem == [exists |-> FALSE, status |-> "CLOSED", images |-> 0]

GoneSession == [exists |-> FALSE, lost_item_id |-> NULL, found_item_id |-> NULL,
                status |-> "FAILED", chat_log |-> <<>>,
                seeker_confirmed |-> "None", finder_confirmed |-> "None",
                completed_at |-> FALSE]

\* the rows of return_schedules of a session without a schedule
NoSchedule == <<>>

\* ReturnSchedule(session_id, proposed_time, proposed_location, notes,
\* status="PENDING") with the column defaults; a proposal stands for the
\* time, the location and the notes of a ScheduleCreate
new_schedule(p) == [status |-> "PENDING", proposal |-> p, reject_reason |-> "",
                    seeker_confirmed |-> FALSE, finder_confirmed |-> FALSE]

\* a response: the operation, the HTTP status code and the notifications
\* (recipient, type) the call sent
NoResponse == [op |-> "none", code |-> 0, sent |-> {}]

NoCall == [args |-> <<>>, called |-> FALSE, value |-> 0]

NoScript == [pad |-> 0, tail |-> <<>>]

IdleWorker == [pc |-> "idle", lost_item_id |-> NULL, matches |-> <<>>,
               idx |-> 0, session_id |-> NULL, round_num |-> 0,
               script |-> NoScript, result |-> "none", rounds |-> 0,
               outcome |-> "none", sent |-> <<>>,
               memory |-> [Seeker |-> <<>>, Finder |-> <<>>]]

ItemExists(i) == i \in ItemIds /\ items[i].exists

SessionIds == 1..Len(sessions)

\* the relationship NegotiationSession.lost_item / found_item: the item row
\* the reference points to, None when the reference is NULL or dangling
lost_item(s) == IF ItemExists(sessions[s].lost_item_id)
                THEN sessions[s].lost_item_id ELSE NULL
found_item(s) == IF ItemExists(sessions[s].found_item_id)
                 THEN sessions[s].found_item_id ELSE NULL

\* the sessions in one of the statuses that reference item i
LiveStatus == {"ACTIVE", "PENDING_CONFIRM"}

SessionsOf(i, statuses) ==
    {s \in SessionIds : /\ sessions[s].exists
                        /\ sessions[s].status \in statuses
                        /\ i \in {sessions[s].lost_item_id, sessions[s].found_item_id}}

\* ---------------------------------------------------------- MatchService
SimSteps == 2         \* a similarity is k/SimSteps, k in 0..SimSteps

OptionalFields == {"description", "ai_description", "location"}

\* the arguments of calculate_match_score, as far as it looks at them:
\* which optional texts each item has (lost_item.X or "" is not empty), and
\* how similar the two texts of each field are (_calculate_similarity, a
\* value of [0, 1])
ScoreArgs ==
    [lost : [OptionalFields -> BOOLEAN], found : [OptionalFields -> BOOLEAN],
     sim : [{"title"} \cup OptionalFields -> 0..SimSteps]]

RECURSIVE weighted_sum(_, _)
\* sum(s * w for s, w in zip(scores, weights)), weights in tenths
weighted_sum(scores, weights) ==
    IF scores = <<>> THEN 0
    ELSE Head(scores) * Head(weights) + weighted_sum(Tail(scores), Tail(weights))

RECURSIVE sum(_)
sum(weights) == IF weights = <<>> THEN 0 ELSE Head(weights) + sum(Tail(weights))

\* round(n / d, 4) in units of 1/10000 (no n / d of this model lies halfway)
round(n, d) == (2 * 10000 * n + d) \div (2 * d)

\* the weights with every comparison counted, absent or not
weights_of_AllCounted(a) == <<3, 3, 3, 1>>

\* weights: 0.3 for the title, then 0.3, 0.3, 0.1 for each optional field
\* that both items have
weights_of(a) ==
    LET both(x) == a.lost[x] /\ a.found[x]
        w1 == <<3>>
        w2 == IF both("description") THEN Append(w1, 3) ELSE w1
        w3 == IF both("ai_description") THEN Append(w2, 3) ELSE w2
    IN IF both("location") THEN Append(w3, 1) ELSE w3

\* scores: the similarities of the fields compared, in the same order
scores_of(a) ==
    LET both(x) == a.lost[x] /\ a.found[x]
        s1 == <<a.sim["title"]>>
        s2 == IF both("description") THEN Append(s1, a.sim["description"]) ELSE s1
        s3 == IF both("ai_description") THEN Append(s2, a.sim["ai_description"]) ELSE s2
    IN IF both("location") THEN Append(s3, a.sim["location"]) ELSE s3

\* calculate_match_score on arguments a, in units of 1/10000
match_score(a) ==
    IF scores_of(a) = <<>> THEN 0
    ELSE round(weighted_sum(scores_of(a), weights_of(a)),
               SimSteps * sum(weights_of(a)))

RECURSIVE SeqsOf(_)
\* every ordering of a finite set: the order in which a query without
\* ORDER BY returns its rows is not specified
SeqsOf(S) == IF S = {} THEN {<<>>}
             ELSE UNION {{<<x>> \o t : t \in SeqsOf(S \ {x})} : x \in S}

\* the list without the slice
Prefix_Untruncated(q, n) == q

\* matches[:limit]
Prefix(q, n) == IF Len(q) <= n THEN q ELSE SubSeq(q, 1, n)

\* find_matches without the exclusion of the failed pairs
Candidates_NoExclusion(l) ==
    {f \in ItemIds :
          /\ items[f].exists
          /\ ItemType(f) = "FOUND"
          /\ items[f].status \in {"OPEN", "MATCHING"}
          /\ owner_id(f) # owner_id(l)
          /\ calculate_match_score(l, f) >= MIN_MATCH_SCORE}

Candidates(l) ==
    LET failed_ids == {r.found_item_id : r \in {x \in failed : x.lost_item_id = l}}
    IN {f \in ItemIds :
          /\ items[f].exists
          /\ ItemType(f) = "FOUND"
          /\ items[f].status \in {"OPEN", "MATCHING"}
          /\ owner_id(f) # owner_id(l)
          /\ f \notin failed_ids
          /\ calculate_match_score(l, f) >= MIN_MATCH_SCORE}

\* the candidates in the order of the query, not sorted by score
find_matches_Unranked(l, limit) ==
    {Prefix(q, limit) : q \in SeqsOf(Candidates(l))}

\* the lists find_matches can return: the candidates by descending score
\* (list.sort is stable, so equal scores keep the row order of the query)
find_matches(l, limit) ==
    {Prefix(q, limit) : q \in {p \in SeqsOf(Candidates(l)) :
        \A i, j \in 1..Len(p) :
            i < j => calculate_match_score(l, p[i]) >= calculate_match_score(l, p[j])}}

\* ----------------------------------------------------- decision function
\* The decision function is external (an LLM).  Its answers in one
\* negotiation are a script: pad times "ASK", then the tail, then "ASK".
ScriptAt(script, n) ==
    IF n <= script.pad THEN "ASK"
    ELSE IF n - script.pad <= Len(script.tail) THEN script.tail[n - script.pad]
    ELSE "ASK"

\* what can come back from the call of the LLM besides an object with an
\* action tag and a text: an exception (timeout, transport error, text that
\* is not JSON), or an object without the fields action and content
Faults == {"ERROR", "NO_FIELDS"}

\* DeepSeekLLM.generate_response: the decision for an outcome of the call.
\* An exception and a missing field give the default; an action that is
\* present is returned as it is ("WAVE" unknown tag, "NONE" JSON null)
generate_response(outcome) ==
    IF outcome \in Faults
    THEN [action |-> "ASK", content |-> "default"]
    ELSE [action |-> outcome, content |-> "text"]

\* the scripts of Spec and SpecRace: agree or reject at once, or never
Scripts == {[pad |-> 0, tail |-> <<"AGREE">>],
            [pad |-> 0, tail |-> <<"REJECT">>],
            [pad |-> 0, tail |-> <<>>]}

ShortScripts == {[pad |-> 0, tail |-> <<"AGREE">>],
                 [pad |-> 0, tail |-> <<"REJECT">>]}

\* the scripts of SpecNeg: any tags after any padding
TailsUpTo(n) == UNION {[1..k -> Tags] : k \in 0..n}

RichScripts == [pad : 0..MAX_NEGOTIATION_ROUNDS, tail : TailsUpTo(MaxTail)]

\* ---------------------------------------------------- NegotiationService
NewSession(l, f) == [exists |-> TRUE, lost_item_id |-> l, found_item_id |-> f,
                     status |-> "ACTIVE", chat_log |-> <<>>,
                     seeker_confirmed |-> "None", finder_confirmed |-> "None",
                     completed_at |-> FALSE]

\* create_session: lock both items, insert the session
create_session(l, f) ==
    /\ items' = [i \in ItemIds |->
                   IF i \in {l, f} /\ items[i].exists
                   THEN [items[i] EXCEPT !.status = "NEGOTIATING"]
                   ELSE items[i]]
    /\ sessions' = Append(sessions, NewSession(l, f))
    /\ schedules' = Append(schedules, NoSchedule)
    /\ UNCHANGED failed

\* the Seeker speaks unless the Finder spoke last
current_agent_SeekerAgain(chat_log) ==
    LET last_sender == IF chat_log = <<>> THEN "None"
                       ELSE chat_log[Len(chat_log)].sender
    IN IF last_sender # "Finder" THEN "Seeker" ELSE "Finder"

\* who speaks next: the agent that did not send the last turn, Seeker first
current_agent(chat_log) ==
    LET last_sender == IF chat_log = <<>> THEN "None"
                       ELSE chat_log[Len(chat_log)].sender
    IN IF last_sender # "Seeker" THEN "Seeker" ELSE "Finder"

\* a result check that fails the dialogue on a tag it does not know
result_of_UnknownFails(action_type) ==
    IF action_type = "AGREE" THEN "SUCCESS"
    ELSE IF action_type = "REJECT" \/ action_type \notin KnownTags THEN "FAILED"
    ELSE "none"

\* the result check after a turn: AGREE and REJECT end the dialogue, any
\* other action tag lets it continue
result_of(action_type) ==
    IF action_type = "AGREE" THEN "SUCCESS"
    ELSE IF action_type = "REJECT" THEN "FAILED"
    ELSE "none"

\* a loop that runs one turn too many
range_done_OffByOne(n) == n > MAX_NEGOTIATION_ROUNDS

\* for round_num in range(MAX_NEGOTIATION_ROUNDS): n turns are done
range_done(n) == n >= MAX_NEGOTIATION_ROUNDS

\* BaseAgent.execute: the turn the speaking agent sends
execute(role, decision) ==
    [sender |-> role, content |-> decision.content,
     action_type |-> decision.action]

\* a failure that leaves no record
handle_failure_failed_NoRecord(s) == failed

\* handle_failure: record the failed pair, both items back to OPEN
\* (applicable only when both relationships resolve to a row)
handle_failure_failed(s) ==
    failed \cup {[lost_item_id |-> sessions[s].lost_item_id,
                  found_item_id |-> sessions[s].found_item_id,
                  session_id |-> s]}

\* only the found item goes back to OPEN
handle_failure_items_FoundOnly(s) ==
    [i \in ItemIds |-> IF i = found_item(s)
                       THEN [items[i] EXCEPT !.status = "OPEN"] ELSE items[i]]

\* only the lost item goes back to OPEN
handle_failure_items_LostOnly(s) ==
    [i \in ItemIds |-> IF i = lost_item(s)
                       THEN [items[i] EXCEPT !.status = "OPEN"] ELSE items[i]]

handle_failure_items(s) ==
    [i \in ItemIds |-> IF i \in {lost_item(s), found_item(s)}
                       THEN [items[i] EXCEPT !.status = "OPEN"] ELSE items[i]]

\* only the lost item becomes MATCHED
handle_success_items_LostOnly(s) ==
    [i \in ItemIds |-> IF i = lost_item(s)
                       THEN [items[i] EXCEPT !.status = "MATCHED"] ELSE items[i]]

\* handle_success: both items MATCHED
handle_success_items(s) ==
    [i \in ItemIds |-> IF i \in {lost_item(s), found_item(s)}
                       THEN [items[i] EXCEPT !.status = "MATCHED"] ELSE items[i]]

\* ------------------------------------------------- BackgroundTaskService
\* an exception ends the task: run_background_matching closes its database
\* session, which rolls the open transaction back
Finish(w, how) ==
    workers' = [workers EXCEPT ![w] = [IdleWorker EXCEPT
                   !.outcome = how, !.sent = workers[w].sent]]

\* notification_service.send(user_id=item.owner_id, type=...): the
\* notification the task sends to the owner of an item
notification(item, type) == [to |-> owner_id(item), type |-> type]

\* the task sends the notifications, one commit each, and returns
FinishSending(w, how, notifications) ==
    workers' = [workers EXCEPT ![w] = [IdleWorker EXCEPT
                   !.outcome = how, !.sent = workers[w].sent \o notifications]]

Crash(w) == Finish(w, "crashed")

\* POST /items/{id}/match (and create_item of a LOST item): queue the task
trigger_matching(w, l) ==
    /\ workers[w].pc = "idle"
    /\ \A v \in Workers : workers[v].pc = "idle" => w <= v
    /\ runs < MaxRuns
    /\ ItemExists(l)
    /\ ItemType(l) = "LOST"
    /\ runs' = runs + 1
    /\ workers' = [workers EXCEPT ![w] = [IdleWorker EXCEPT
                      !.pc = "start", !.lost_item_id = l, !.outcome = "running"]]
    /\ UNCHANGED <<db, calls, http, ret>>

\* run_auto_matching, first transaction: load the item, mark it MATCHING
Start(w) ==
    LET l == workers[w].lost_item_id IN
    /\ workers[w].pc = "start"
    /\ IF ~ItemExists(l)
       THEN /\ Finish(w, "missing")
            /\ UNCHANGED <<db, runs, calls, http, ret>>
       ELSE /\ items' = [items EXCEPT ![l].status = "MATCHING"]
            /\ workers' = [workers EXCEPT ![w].pc = "find"]
            /\ UNCHANGED <<sessions, schedules, failed, runs, calls, http, ret>>

\* second transaction: find_matches, then either the no-match exit or
\* create_session for the first candidate
FindAndCreate(w, SS) ==
    LET l == workers[w].lost_item_id IN
    /\ workers[w].pc = "find"
    /\ IF ~ItemExists(l)
       THEN /\ Crash(w)
            /\ UNCHANGED <<db, runs, calls, http, ret>>
       ELSE \E m \in find_matches(l, FIND_LIMIT) :
              IF m = <<>>
              THEN /\ items' = [items EXCEPT ![l].status = "OPEN"]
                   /\ FinishSending(w, "no_match", <<notification(l, "NO_MATCH")>>)
                   /\ UNCHANGED <<sessions, schedules, failed, runs, calls, http, ret>>
              ELSE \E sc \in SS :
                   /\ create_session(l, m[1])
                   /\ workers' = [workers EXCEPT ![w] = [@ EXCEPT
                         !.pc = "turn", !.matches = m, !.idx = 1,
                         !.session_id = Len(sessions) + 1,
                         !.round_num = 0, !.script = sc,
                         !.result = "none", !.rounds = 0]]
                   /\ UNCHANGED <<runs, calls, http, ret>>

\* execute appends the message to the speaker's memory; then both memories
\* are replaced by copies of the log just written
memory_after_turn(memory, role, message, current_log) ==
    [Seeker |-> current_log, Finder |-> current_log]

\* one iteration of the turn loop of run_full_negotiation
Turn(w) ==
    LET s == workers[w].session_id
        n == workers[w].round_num
        \* the first iteration works on the row as create_session refreshed
        \* it (get() answers from the identity map); later ones reload it
        log == IF n = 0 THEN <<>> ELSE sessions[s].chat_log
        role == current_agent(log)
        knowledge == IF role = "Seeker" THEN workers[w].lost_item_id
                     ELSE workers[w].matches[workers[w].idx]
        decision == generate_response(ScriptAt(workers[w].script, n + 1))
        action == decision.action
        \* _hydrate_agents: both agents start from a copy of the chat log
        memory == IF n = 0 THEN [Seeker |-> log, Finder |-> log]
                  ELSE workers[w].memory
        message == execute(role, decision)
        current_log == Append(log, message)
        synced == memory_after_turn(memory, role, message, current_log)
    IN
    /\ workers[w].pc = "turn"
    /\ IF ~sessions[s].exists \/ ~ItemExists(knowledge)
       THEN /\ Crash(w)
            /\ UNCHANGED <<db, runs, calls, http, ret>>
       ELSE /\ sessions' = [sessions EXCEPT ![s].chat_log = current_log]
            /\ workers' = [workers EXCEPT ![w] =
                 IF result_of(action) # "none"
                 THEN [@ EXCEPT !.pc = "status", !.round_num = n + 1,
                                !.result = result_of(action),
                                !.rounds = n + 1, !.memory = synced]
                 ELSE IF range_done(n + 1)
                 THEN [@ EXCEPT !.pc = "status", !.round_num = n + 1,
                                !.result = "MAX_ROUNDS",
                                !.rounds = MAX_NEGOTIATION_ROUNDS,
                                !.memory = synced]
                 ELSE [@ EXCEPT !.round_num = n + 1, !.memory = synced]]
            /\ UNCHANGED <<items, schedules, failed, runs, calls, http, ret>>

\* the transaction that ends run_full_negotiation: the session's status;
\* on SUCCESS run_auto_matching notifies both owners and returns
SetStatus(w) ==
    LET s == workers[w].session_id IN
    /\ workers[w].pc = "status"
    /\ IF ~sessions[s].exists
       THEN /\ Crash(w)
            /\ UNCHANGED <<db, runs, calls, http, ret>>
       ELSE /\ sessions' = [sessions EXCEPT
                  ![s].status = IF workers[w].result = "SUCCESS"
                                THEN "PENDING_CONFIRM" ELSE "FAILED",
                  ![s].completed_at = TRUE]
            /\ workers' = [workers EXCEPT ![w].pc =
                  IF workers[w].result = "SUCCESS" THEN "notify" ELSE "failure"]
            /\ UNCHANGED <<items, schedules, failed, runs, calls, http, ret>>

\* SUCCESS: the MATCH_FOUND notifications to both owners, then return
Notify(w) ==
    LET l == workers[w].lost_item_id
        f == workers[w].matches[workers[w].idx]
    IN
    /\ workers[w].pc = "notify"
    /\ IF ItemExists(l) /\ ItemExists(f)
       THEN FinishSending(w, "success", <<notification(l, "MATCH_FOUND"),
                                          notification(f, "MATCH_FOUND")>>)
       ELSE IF ItemExists(l)
       \* the first notification is committed, found_item.owner_id raises
       THEN FinishSending(w, "crashed", <<notification(l, "MATCH_FOUND")>>)
       ELSE Crash(w)
    /\ UNCHANGED <<db, runs, calls, http, ret>>

\* handle_failure called by run_auto_matching
HandleFailure(w) ==
    LET s == workers[w].session_id IN
    /\ workers[w].pc = "failure"
    /\ IF ~sessions[s].exists \/ lost_item(s) = NULL \/ found_item(s) = NULL
       THEN /\ Crash(w)
            /\ UNCHANGED <<db, runs, calls, http, ret>>
       ELSE /\ failed' = handle_failure_failed(s)
            /\ items' = handle_failure_items(s)
            /\ workers' = [workers EXCEPT ![w] =
                  IF workers[w].idx < Len(workers[w].matches)
                  THEN [@ EXCEPT !.pc = "create", !.idx = @ + 1]
                  ELSE [@ EXCEPT !.pc = "exhausted"]]
            /\ UNCHANGED <<sessions, schedules, runs, calls, http, ret>>

\* create_session for the next candidate of the list found at the start
Create(w, SS) ==
    LET l == workers[w].lost_item_id
        f == workers[w].matches[workers[w].idx]
    IN
    /\ workers[w].pc = "create"
    /\ IF ~ItemExists(l) \/ ~ItemExists(f)
       THEN /\ Crash(w)
            /\ UNCHANGED <<db, runs, calls, http, ret>>
       ELSE \E sc \in SS :
            /\ create_session(l, f)
            /\ workers' = [workers EXCEPT ![w] = [@ EXCEPT
                  !.pc = "turn", !.session_id = Len(sessions) + 1,
                  !.round_num = 0, !.script = sc,
                  !.result = "none", !.rounds = 0]]
            /\ UNCHANGED <<runs, calls, http, ret>>

\* every candidate failed: the lost item back to OPEN, NO_MATCH notification
Exhausted(w) ==
    LET l == workers[w].lost_item_id IN
    /\ workers[w].pc = "exhausted"
    /\ IF ~ItemExists(l)
       THEN /\ Crash(w)
            /\ UNCHANGED <<db, runs, calls, http, ret>>
       ELSE /\ items' = [items EXCEPT ![l].status = "OPEN"]
            /\ FinishSending(w, "exhausted", <<notification(l, "NO_MATCH")>>)
            /\ UNCHANGED <<sessions, schedules, failed, runs, calls, http, ret>>

\* --------------------------------------------------- the HTTP handlers
\* A handler is one action.  Its HTTPException checks (404, 403, 400) are
\* its status operator and the guard of the action: a refused call writes
\* nothing.  An exception raised later in the
\* body (a 500) is a step that leaves the database as it was at the last
\* commit.  The handlers do not constrain the call counter; Next does.
\* The HTTP status code of each handler, from its checks in the order of the
\* code: 404 no such row, 403 not the caller's, 400 wrong state, 500 an
\* exception in the body, 200 otherwise.
\* HTTPException before the first write: the call changes nothing
Refused(code) == code \in {400, 403, 404}

B(b) == IF b THEN "True" ELSE "False"


Role(s, u) ==
    IF lost_item(s) # NULL /\ owner_id(lost_item(s)) = u THEN "seeker"
    ELSE IF found_item(s) # NULL /\ owner_id(found_item(s)) = u THEN "finder"
    ELSE "none"

Found(s) == s \in SessionIds /\ sessions[s].exists

\* one confirmation is enough
BothConfirmed_Either(sess) ==
    sess.seeker_confirmed = "True" \/ sess.finder_confirmed = "True"

BothConfirmed(sess) ==
    sess.seeker_confirmed = "True" /\ sess.finder_confirmed = "True"

confirm_item_status(s, u, is_my_item) ==
    IF ~Found(s) THEN 404
    ELSE IF Role(s, u) = "none" THEN 403
    ELSE LET flagged == IF Role(s, u) = "seeker"
                        THEN [sessions[s] EXCEPT !.seeker_confirmed = B(is_my_item)]
                        ELSE [sessions[s] EXCEPT !.finder_confirmed = B(is_my_item)]
             touches_items == ~is_my_item \/ BothConfirmed(flagged)
         IN IF touches_items /\ (lost_item(s) = NULL \/ found_item(s) = NULL)
            THEN 500 ELSE 200

\* POST /negotiations/{id}/confirm
confirm_item(s, u, is_my_item) ==
    LET role == Role(s, u)
        flagged == IF role = "seeker"
                   THEN [sessions[s] EXCEPT !.seeker_confirmed = B(is_my_item)]
                   ELSE [sessions[s] EXCEPT !.finder_confirmed = B(is_my_item)]
        both_rows == lost_item(s) # NULL /\ found_item(s) # NULL
    IN
    /\ ~Refused(confirm_item_status(s, u, is_my_item))
    /\ IF ~is_my_item
       THEN IF both_rows
            THEN /\ sessions' = [sessions EXCEPT ![s] =
                                    [flagged EXCEPT !.status = "REJECTED"]]
                 /\ failed' = handle_failure_failed(s)
                 /\ items' = handle_failure_items(s)
                 /\ UNCHANGED <<schedules, workers, runs>>
            ELSE UNCHANGED <<db, workers, runs>>
       ELSE IF BothConfirmed(flagged)
            THEN IF both_rows
                 THEN /\ sessions' = [sessions EXCEPT ![s] =
                                         [flagged EXCEPT !.status = "CONFIRMED"]]
                      /\ items' = handle_success_items(s)
                      /\ UNCHANGED <<schedules, failed, workers, runs>>
                 ELSE UNCHANGED <<db, workers, runs>>
            ELSE /\ sessions' = [sessions EXCEPT ![s] = flagged]
                 /\ UNCHANGED <<items, schedules, failed, workers, runs>>

SystemEntry == [sender |-> "System", content |-> "forced", action_type |-> "NONE"]

\* audit entries in the transcript of session s
Forced(s) == Cardinality({k \in 1..Len(sessions[s].chat_log) :
                             sessions[s].chat_log[k] = SystemEntry})

\* either party may force the match
force_match_status_AnyParty(s, u) ==
    IF ~Found(s) THEN 404
    ELSE IF Role(s, u) = "none" THEN 403
    ELSE IF sessions[s].status \notin {"FAILED", "REJECTED"} THEN 400
    ELSE 200

force_match_status(s, u) ==
    IF ~Found(s) THEN 404
    ELSE IF ~(lost_item(s) # NULL /\ owner_id(lost_item(s)) = u) THEN 403
    ELSE IF sessions[s].status \notin {"FAILED", "REJECTED"} THEN 400
    ELSE 200

\* POST /negotiations/{id}/force-match
force_match(s, u) ==
    /\ ~Refused(force_match_status(s, u))
    /\ Forced(s) < MaxForce
    /\ sessions' = [sessions EXCEPT ![s] = [@ EXCEPT
                       !.status = "PENDING_CONFIRM",
                       !.seeker_confirmed = "True",
                       !.chat_log = Append(@, SystemEntry)]]
    /\ UNCHANGED <<items, schedules, failed, workers, runs>>

\* query(ReturnSchedule).filter(session_id == s).first(): the position of the
\* row among the rows of the session, 0 for None
existing(s) == IF schedules[s] = <<>> THEN 0 ELSE 1

\* query(ReturnSchedule).filter(session_id == s, status == "PENDING").first()
pending_schedule(s) ==
    IF \E k \in 1..Len(schedules[s]) : schedules[s][k].status = "PENDING"
    THEN CHOOSE k \in 1..Len(schedules[s]) :
            /\ schedules[s][k].status = "PENDING"
            /\ \A j \in 1..(k - 1) : schedules[s][j].status # "PENDING"
    ELSE 0

create_schedule_status(s, u) ==
    IF ~Found(s) THEN 404
    ELSE IF ~(found_item(s) # NULL /\ owner_id(found_item(s)) = u) THEN 403
    ELSE IF sessions[s].status # "CONFIRMED" THEN 400
    ELSE IF existing(s) # 0 /\ schedules[s][existing(s)].status = "PENDING" THEN 400
    ELSE 200

\* a proposal that always inserts a row
create_schedule_rows_AlwaysInsert(s, p) == Append(schedules[s], new_schedule(p))

\* the rows of the session after the proposal: the existing row overwritten,
\* or a new row added
create_schedule_rows(s, p) ==
    IF existing(s) # 0
    THEN [schedules[s] EXCEPT ![existing(s)] = [@ EXCEPT
             !.status = "PENDING", !.proposal = p, !.reject_reason = ""]]
    ELSE Append(schedules[s], new_schedule(p))

\* POST /negotiations/{id}/schedule
create_schedule(s, u, p) ==
    /\ ~Refused(create_schedule_status(s, u))
    /\ schedules' = [schedules EXCEPT ![s] = create_schedule_rows(s, p)]
    /\ sessions' = [sessions EXCEPT ![s].status = "SCHEDULE_PENDING"]
    /\ UNCHANGED <<items, failed, workers, runs>>

\* approval without the check of the session status
approve_schedule_status_AnyState(s, u) ==
    IF ~Found(s) THEN 404
    ELSE IF ~(lost_item(s) # NULL /\ owner_id(lost_item(s)) = u) THEN 403
    ELSE 200

approve_schedule_status(s, u) ==
    IF ~Found(s) THEN 404
    ELSE IF ~(lost_item(s) # NULL /\ owner_id(lost_item(s)) = u) THEN 403
    ELSE IF sessions[s].status # "SCHEDULE_PENDING" THEN 400
    ELSE 200

\* POST /negotiations/{id}/schedule/approve
approve_schedule(s, u) ==
    /\ ~Refused(approve_schedule_status(s, u))
    /\ schedules' = [schedules EXCEPT ![s] =
                        IF pending_schedule(s) # 0
                        THEN [@ EXCEPT ![pending_schedule(s)].status = "APPROVED"]
                        ELSE @]
    /\ sessions' = [sessions EXCEPT ![s].status = "WAITING_RETURN"]
    /\ UNCHANGED <<items, failed, workers, runs>>

\* a reason that is taken as it was sent
strip_Untrimmed(r) == r

\* str.strip() on the reasons of the fixture
strip(r) == CASE r = " " -> ""
              [] r = " busy " -> "busy"
              [] OTHER -> r

reject_schedule_status(s, u, reason) ==
    IF ~Found(s) THEN 404
    ELSE IF ~(lost_item(s) # NULL /\ owner_id(lost_item(s)) = u) THEN 403
    ELSE IF sessions[s].status # "SCHEDULE_PENDING" THEN 400
    ELSE IF reason = "" \/ strip(reason) = "" THEN 400
    ELSE 200

\* POST /negotiations/{id}/schedule/reject
reject_schedule(s, u, reason) ==
    /\ ~Refused(reject_schedule_status(s, u, reason))
    /\ schedules' = [schedules EXCEPT ![s] =
                        IF pending_schedule(s) # 0
                        THEN [@ EXCEPT ![pending_schedule(s)] = [@ EXCEPT
                                 !.status = "REJECTED",
                                 !.reject_reason = strip(reason)]]
                        ELSE @]
    /\ sessions' = [sessions EXCEPT ![s].status = "CONFIRMED"]
    /\ UNCHANGED <<items, failed, workers, runs>>

\* start_return without its check of the session status
start_return_status_AnyState(s) ==
    IF ~Found(s) THEN 404 ELSE 200

start_return_status(s) ==
    IF ~Found(s) THEN 404
    ELSE IF sessions[s].status # "CONFIRMED" THEN 400
    ELSE 200

\* POST /negotiations/{id}/start-return (any authenticated user)
start_return(s, u) ==
    /\ ~Refused(start_return_status(s))
    /\ sessions' = [sessions EXCEPT ![s].status = "WAITING_RETURN"]
    /\ UNCHANGED <<items, schedules, failed, workers, runs>>

\* a return that leaves the image rows of the item
delete_images_Kept(i) == items[i].images

\* query(ItemImage).filter(item_id == i).delete(): no row is left
delete_images(i) == 0

\* the checks of confirm_return that come before its body
confirm_return_status(s, u) ==
    IF ~Found(s) THEN 404
    ELSE IF sessions[s].status # "WAITING_RETURN" THEN 400
    ELSE IF Role(s, u) = "none" THEN 403
    ELSE 200

\* POST /negotiations/{id}/confirm-return
confirm_return(s, u, is_returned) ==
    LET is_seeker == lost_item(s) # NULL /\ owner_id(lost_item(s)) = u
        is_finder == found_item(s) # NULL /\ owner_id(found_item(s)) = u
        \* first commit: the caller's flag on the session and the schedule
        flagged == IF is_seeker
                   THEN [sessions[s] EXCEPT !.seeker_confirmed = B(is_returned)]
                   ELSE [sessions[s] EXCEPT !.finder_confirmed = B(is_returned)]
        sched == IF existing(s) = 0 THEN schedules[s]
                 ELSE IF is_seeker
                 THEN [schedules[s] EXCEPT ![existing(s)].seeker_confirmed = is_returned]
                 ELSE [schedules[s] EXCEPT ![existing(s)].finder_confirmed = is_returned]
        lost_id == lost_item(s)
        found_id == found_item(s)
        gone == {lost_id, found_id} \ {NULL}
        \* rows of other sessions that still point to one of the two items
        referenced == \E t \in SessionIds :
                         /\ t # s /\ sessions[t].exists
                         /\ \/ sessions[t].lost_item_id \in gone
                            \/ sessions[t].found_item_id \in gone
    IN
    /\ ~Refused(confirm_return_status(s, u))
    /\ schedules' = [schedules EXCEPT ![s] = sched]
    /\ IF ~is_returned
       THEN /\ sessions' = [sessions EXCEPT ![s] = [flagged EXCEPT
                               !.status = "RETURN_FAILED", !.completed_at = TRUE]]
            /\ items' = handle_failure_items(s)
            /\ failed' = failed \cup {[lost_item_id |-> lost_id,
                                       found_item_id |-> found_id,
                                       session_id |-> NULL]}
       ELSE IF BothConfirmed(flagged)
       THEN \/ \* a database that enforces foreign keys (MySQL/InnoDB) refuses
               \* DELETE FROM items while another session points to the item:
               \* IntegrityError, the second transaction is rolled back
               /\ referenced
               /\ sessions' = [sessions EXCEPT ![s] = flagged]
               /\ UNCHANGED <<items, failed>>
            \/ \* no other reference, or a database that does not enforce
               \* foreign keys (SQLite without PRAGMA foreign_keys)
               /\ sessions' = [sessions EXCEPT ![s] = [flagged EXCEPT
                                  !.status = "RETURNED", !.completed_at = TRUE,
                                  !.lost_item_id = NULL, !.found_item_id = NULL]]
               /\ failed' = {r \in failed : r.lost_item_id \notin gone
                                            /\ r.found_item_id \notin gone}
               /\ items' = [i \in ItemIds |->
                               IF i \in gone
                               THEN [exists |-> FALSE, status |-> "CLOSED",
                                     images |-> delete_images(i)]
                               ELSE items[i]]
       ELSE /\ sessions' = [sessions EXCEPT ![s] = flagged]
            /\ UNCHANGED <<items, failed>>
    /\ UNCHANGED <<workers, runs>>

return_failed_status(s, u) ==
    IF ~Found(s) THEN 404
    ELSE IF sessions[s].status # "WAITING_RETURN" THEN 400
    ELSE IF Role(s, u) = "none" THEN 403
    ELSE 500

\* POST /negotiations/{id}/return-failed: main.py imports the class
\* datetime, so datetime.datetime.utcnow() raises AttributeError before the
\* commit; nothing is written
return_failed(s, u) ==
    /\ ~Refused(return_failed_status(s, u))
    /\ UNCHANGED <<db, workers, runs>>

delete_item_status(i, u) ==
    IF ~ItemExists(i) THEN 404
    ELSE IF owner_id(i) # u THEN 403
    ELSE IF SessionsOf(i, LiveStatus) # {} THEN 400
    ELSE 200

\* DELETE /items/{id}
delete_item(i, u) ==
    LET refs == {t \in SessionIds : sessions[t].exists /\
                     (sessions[t].lost_item_id = i \/ sessions[t].found_item_id = i)}
        active_sessions == {t \in refs :
                               sessions[t].status \in {"ACTIVE", "PENDING_CONFIRM"}}
    IN
    /\ ~Refused(delete_item_status(i, u))
    /\ failed' = {r \in failed : r.lost_item_id # i /\ r.found_item_id # i}
    /\ sessions' = [t \in SessionIds |->
                       IF t \in refs THEN GoneSession ELSE sessions[t]]
    /\ schedules' = [t \in SessionIds |->
                        IF t \in refs THEN NoSchedule ELSE schedules[t]]
    /\ items' = [items EXCEPT ![i] = GoneItem]
    /\ UNCHANGED <<workers, runs>>

\* ------------------------------------------------------- specifications
SeqWorkers == {1}     \* Spec runs the background tasks one after the other

\* create_item: the item OPEN, one item_images row per uploaded path
FreshItems(present) ==
    [i \in ItemIds |-> IF i \in present
                       THEN [exists |-> TRUE, status |-> "OPEN",
                             images |-> image_paths(i)]
                       ELSE GoneItem]

\* one lost item (1) with two found candidates (3 and 4), nothing matched yet
Init ==
    /\ items = FreshItems({1, 3, 4})
    /\ sessions = <<>>
    /\ schedules = <<>>
    /\ failed = {}
    /\ workers = [w \in Workers |-> IdleWorker]
    /\ runs = 0
    /\ calls = 0
    /\ http = NoResponse
    /\ ret = NoCall

\* a handler call that ran its body counts against MaxCalls; its response
\* is not observed
Counted == calls < MaxCalls /\ calls' = calls + 1 /\ UNCHANGED <<http, ret>>

ConfirmItem ==
    \E s \in SessionIds, u \in Users, b \in BOOLEAN : Counted /\ confirm_item(s, u, b)

ForceMatch ==
    \E s \in SessionIds, u \in Users : Counted /\ force_match(s, u)

CreateSchedule ==
    \E s \in SessionIds, u \in Users, p \in Proposals :
        Counted /\ create_schedule(s, u, p)

ApproveSchedule ==
    \E s \in SessionIds, u \in Users : Counted /\ approve_schedule(s, u)

RejectSchedule ==
    \E s \in SessionIds, u \in Users, r \in Reasons :
        Counted /\ reject_schedule(s, u, r)

StartReturn ==
    \E s \in SessionIds, u \in Users : Counted /\ start_return(s, u)

ConfirmReturn ==
    \E s \in SessionIds, u \in Users, b \in BOOLEAN :
        Counted /\ confirm_return(s, u, b)

ReturnFailed ==
    \E s \in SessionIds, u \in Users : Counted /\ return_failed(s, u)

DeleteItem ==
    \E i \in ItemIds, u \in Users : Counted /\ delete_item(i, u)

Task(w, SS) ==
    \/ Start(w)
    \/ FindAndCreate(w, SS)
    \/ Turn(w)
    \/ SetStatus(w)
    \/ Notify(w)
    \/ HandleFailure(w)
    \/ Create(w, SS)
    \/ Exhausted(w)

\* the whole system, background tasks one at a time
Next ==
    \/ \E w \in SeqWorkers, l \in LostIds : trigger_matching(w, l)
    \/ \E w \in SeqWorkers : Task(w, ShortScripts)
    \/ ConfirmItem
    \/ ForceMatch
    \/ CreateSchedule
    \/ ApproveSchedule
    \/ RejectSchedule
    \/ StartReturn
    \/ ConfirmReturn
    \/ ReturnFailed
    \/ DeleteItem

Spec == Init /\ [][Next]_vars

\* two background tasks at once, two lost items, no human at work
InitRace ==
    /\ items = FreshItems(ItemIds)
    /\ sessions = <<>>
    /\ schedules = <<>>
    /\ failed = {}
    /\ workers = [w \in Workers |-> IdleWorker]
    /\ runs = 0
    /\ calls = 0
    /\ http = NoResponse
    /\ ret = NoCall

NextRace ==
    \/ \E w \in Workers, l \in LostIds : trigger_matching(w, l)
    \/ \E w \in Workers : Task(w, Scripts)

SpecRace == InitRace /\ [][NextRace]_vars

\* one background task alone with one candidate, every decision script
InitNeg ==
    /\ items = FreshItems({1, 3})
    /\ sessions = <<>>
    /\ schedules = <<>>
    /\ failed = {}
    /\ workers = [w \in Workers |->
                    IF w = 1 THEN [IdleWorker EXCEPT !.pc = "start",
                                      !.lost_item_id = 1, !.outcome = "running"]
                    ELSE IdleWorker]
    /\ runs = 1
    /\ calls = 0
    /\ http = NoResponse
    /\ ret = NoCall

NextNeg ==
    \/ Start(1)
    \/ FindAndCreate(1, RichScripts)
    \/ Turn(1)
    \/ SetStatus(1)
    \/ Notify(1)
    \/ HandleFailure(1)
    \/ Exhausted(1)

SpecNeg == InitNeg /\ [][NextNeg]_vars

\* a decision function that is faulty: a fault of the call, or an action
\* field that is no tag of the protocol
Malformed == {"WAVE", "NONE"}
FaultyOutcomes == Faults \cup Malformed

\* a fault on every turn (two kinds in turn), or the padding, one fault and
\* then an agreement
EveryTurnFaulty ==
    {[pad |-> 0,
      tail |-> [k \in 1..MAX_NEGOTIATION_ROUNDS |-> IF k % 2 = 1 THEN f ELSE g]] :
        f, g \in FaultyOutcomes}

FaultScripts ==
    EveryTurnFaulty \cup
    {[pad |-> p, tail |-> <<f, "AGREE">>] :
        p \in 0..MAX_NEGOTIATION_ROUNDS, f \in FaultyOutcomes}

\* one background task alone with one candidate and a faulty decision function
NextFault ==
    \/ Start(1)
    \/ FindAndCreate(1, FaultScripts)
    \/ Turn(1)
    \/ SetStatus(1)
    \/ Notify(1)
    \/ HandleFailure(1)
    \/ Exhausted(1)

SpecFault == InitNeg /\ [][NextFault]_vars

\* ------------------------------------------------- find_matches on its own
MaxLimit == 2         \* the limits find_matches is called with: 0..MaxLimit

\* any store content: the lost items open, every found item available (OPEN,
\* MATCHING), taken (MATCHED) or deleted, any set of failed pairs (pairs of
\* different owners: only they can have had a session); no task has run
InitMatch ==
    /\ \E st \in [FoundIds -> {"OPEN", "MATCHING", "MATCHED", "deleted"}] :
          items = [i \in ItemIds |->
                     IF i \in LostIds THEN FreshItems(LostIds)[i]
                     ELSE IF st[i] = "deleted" THEN GoneItem
                     ELSE [exists |-> TRUE, status |-> st[i],
                           images |-> image_paths(i)]]
    /\ sessions = <<>>
    /\ schedules = <<>>
    /\ failed \in SUBSET
          {[lost_item_id |-> p[1], found_item_id |-> p[2], session_id |-> NULL] :
              p \in {q \in LostIds \X FoundIds : owner_id(q[1]) # owner_id(q[2])}}
    /\ workers = [w \in Workers |-> IdleWorker]
    /\ runs = 0
    /\ calls = 0
    /\ http = NoResponse
    /\ ret = NoCall

\* matches = self.match_service.find_matches(lost_item, limit): the task
\* keeps the list it was given
FindMatches(w, l, limit) ==
    /\ workers[w].lost_item_id = NULL
    /\ \E m \in find_matches(l, limit) :
          workers' = [workers EXCEPT ![w] = [IdleWorker EXCEPT
                         !.lost_item_id = l, !.matches = m, !.outcome = "found"]]
    /\ UNCHANGED <<db, runs, calls, http, ret>>

NextMatch == \E l \in LostIds, limit \in 0..MaxLimit : FindMatches(1, l, limit)

SpecMatch == InitMatch /\ [][NextMatch]_vars

\* --------------------------------------- calculate_match_score on its own
\* any two items: the store plays no part
InitScore ==
    /\ items = FreshItems({1, 3})
    /\ sessions = <<>>
    /\ schedules = <<>>
    /\ failed = {}
    /\ workers = [w \in Workers |-> IdleWorker]
    /\ runs = 0
    /\ calls = 0
    /\ http = NoResponse
    /\ ret \in {[NoCall EXCEPT !.args = a] : a \in ScoreArgs}

\* score = self.calculate_match_score(lost_item, found_item)
CalculateMatchScore ==
    /\ ret.args # <<>>
    /\ ~ret.called
    /\ ret' = [ret EXCEPT !.called = TRUE, !.value = match_score(ret.args)]
    /\ UNCHANGED <<db, workers, runs, calls, http>>

NextScore == CalculateMatchScore

SpecScore == InitScore /\ [][NextScore]_vars

\* ---------------------------------------------------- the observed calls
\* NotificationService.send to the owner of an item of the session, if the
\* relationship resolves to a row
send(item, type) ==
    IF item = NULL THEN {} ELSE {[to |-> owner_id(item), type |-> type]}

Answer(op, code, sent) ==
    /\ http' = [op |-> op, code |-> code, sent |-> sent]
    /\ UNCHANGED ret

Untouched == UNCHANGED <<db, workers, runs>>

\* the ids a caller names: the rows of the table (a deleted row answers 404)
\* and, while the table is empty, the id of the row to come
CallIds == IF sessions = <<>> THEN {1} ELSE SessionIds

confirm_item_call(s, u, is_my_item) ==
    LET code == confirm_item_status(s, u, is_my_item) IN
    /\ Answer("confirm", code, {})
    /\ IF Refused(code) THEN Untouched ELSE confirm_item(s, u, is_my_item)

force_match_call(s, u) ==
    LET code == force_match_status(s, u) IN
    /\ Answer("force_match", code, {})
    /\ IF Refused(code) THEN Untouched ELSE force_match(s, u)

create_schedule_call(s, u, p) ==
    LET code == create_schedule_status(s, u) IN
    /\ IF Refused(code)
       THEN Answer("create_schedule", code, {}) /\ Untouched
       ELSE /\ Answer("create_schedule", code, send(lost_item(s), "SCHEDULE"))
            /\ create_schedule(s, u, p)

approve_schedule_call(s, u) ==
    LET code == approve_schedule_status(s, u) IN
    /\ IF Refused(code)
       THEN Answer("approve_schedule", code, {}) /\ Untouched
       ELSE /\ Answer("approve_schedule", code,
                      send(found_item(s), "NEGOTIATION_UPDATE"))
            /\ approve_schedule(s, u)

reject_schedule_call(s, u, reason) ==
    LET code == reject_schedule_status(s, u, reason) IN
    /\ IF Refused(code)
       THEN Answer("reject_schedule", code, {}) /\ Untouched
       ELSE /\ Answer("reject_schedule", code,
                      send(found_item(s), "NEGOTIATION_UPDATE"))
            /\ reject_schedule(s, u, reason)

start_return_call(s, u) ==
    LET code == start_return_status(s) IN
    /\ Answer("start_return", code, {})
    /\ IF Refused(code) THEN Untouched ELSE start_return(s, u)

confirm_return_call(s, u, is_returned) ==
    LET code == confirm_return_status(s, u) IN
    /\ IF Refused(code)
       THEN Answer("confirm_return", code, {}) /\ Untouched
       ELSE /\ confirm_return(s, u, is_returned)
            \* 500 when the deletion of the items was refused
            /\ Answer("confirm_return",
                      IF /\ is_returned
                         /\ BothConfirmed(sessions'[s])
                         /\ sessions'[s].status = "WAITING_RETURN"
                      THEN 500 ELSE 200, {})

return_failed_call(s, u) ==
    LET code == return_failed_status(s, u) IN
    /\ Answer("return_failed", code, {})
    /\ IF Refused(code) THEN Untouched ELSE return_failed(s, u)

delete_item_call(i, u) ==
    LET code == delete_item_status(i, u) IN
    /\ Answer("delete_item", code, {})
    /\ IF Refused(code) THEN Untouched ELSE delete_item(i, u)

ConfirmItemCall ==
    \E s \in CallIds, u \in Users, b \in BOOLEAN : confirm_item_call(s, u, b) /\ UNCHANGED calls

ForceMatchCall == \E s \in CallIds, u \in Users : force_match_call(s, u) /\ UNCHANGED calls

CreateScheduleCall ==
    \E s \in CallIds, u \in Users, p \in Proposals : create_schedule_call(s, u, p) /\ UNCHANGED calls

ApproveScheduleCall == \E s \in CallIds, u \in Users : approve_schedule_call(s, u) /\ UNCHANGED calls

RejectScheduleCall ==
    \E s \in CallIds, u \in Users, r \in Reasons : reject_schedule_call(s, u, r) /\ UNCHANGED calls

StartReturnCall == \E s \in CallIds, u \in Users : start_return_call(s, u) /\ UNCHANGED calls

ConfirmReturnCall ==
    \E s \in CallIds, u \in Users, b \in BOOLEAN : confirm_return_call(s, u, b) /\ UNCHANGED calls

ReturnFailedCall == \E s \in CallIds, u \in Users : return_failed_call(s, u) /\ UNCHANGED calls

DeleteItemCall == \E i \in ItemIds, u \in Users : delete_item_call(i, u) /\ UNCHANGED calls

\* one matching run on one pair, and the parties (alice the seeker, bob the
\* finder, carol a stranger) calling the handlers at any time, any number of
\* times, every response observed
NextHuman ==
    \/ Start(1)
    \/ FindAndCreate(1, ShortScripts)
    \/ Turn(1)
    \/ SetStatus(1)
    \/ Notify(1)
    \/ HandleFailure(1)
    \/ Exhausted(1)
    \/ ConfirmItemCall
    \/ ForceMatchCall
    \/ CreateScheduleCall
    \/ ApproveScheduleCall
    \/ RejectScheduleCall
    \/ StartReturnCall
    \/ ConfirmReturnCall
    \/ ReturnFailedCall
    \/ DeleteItemCall

SpecHuman == InitNeg /\ [][NextHuman]_vars

\* ------------------------------------------------- the schedule round trip
\* The session of the fixture's pair, and its two parties.
TripSession == 1
TripSeeker == owner_id(sessions[TripSession].lost_item_id)
TripFinder == owner_id(sessions[TripSession].found_item_id)

\* the four calls of the round trip, one after the other and nothing in
\* between; calls counts the calls of the round trip made so far
TripPropose1 ==
    /\ calls = 0
    /\ Found(TripSession)
    /\ sessions[TripSession].status = "CONFIRMED"
    /\ create_schedule_call(TripSession, TripFinder, "p1")
    /\ calls' = 1

TripReject ==
    /\ calls = 1
    /\ \E r \in Reasons :
         strip(r) # "" /\ reject_schedule_call(TripSession, TripSeeker, r)
    /\ calls' = 2

TripPropose2 ==
    /\ calls = 2
    /\ create_schedule_call(TripSession, TripFinder, "p2")
    /\ calls' = 3

TripApprove ==
    /\ calls = 3
    /\ approve_schedule_call(TripSession, TripSeeker)
    /\ calls' = 4

BeforeTrip == calls = 0 /\ NextHuman

\* anything that leads to a CONFIRMED session, then the round trip
NextTrip ==
    \/ BeforeTrip
    \/ TripPropose1
    \/ TripReject
    \/ TripPropose2
    \/ TripApprove

SpecTrip == InitNeg /\ [][NextTrip]_vars

\* ------------------------------------------------------------ properties
HasFailed(l, f) == \E r \in failed : r.lost_item_id = l /\ r.found_item_id = f

\* some list find_matches can return for l holds f
Returns(l, f) ==
    \E m \in find_matches(l, FIND_LIMIT) : \E k \in 1..Len(m) : m[k] = f

\* C1: once a Failed Match record for the pair (L, F) is written then, as
\* long as both items exist, the record stays and no call of find_matches(L)
\* returns F, whatever happens in between (further matching runs, human
\* confirmations, a forced override of the failed session, return failures).
C1_FailedPairNeverReturned ==
    /\ [](\A l \in LostIds, f \in FoundIds : HasFailed(l, f) => ~Returns(l, f))
    /\ [][\A l \in LostIds, f \in FoundIds :
            (HasFailed(l, f) /\ ItemExists(l)' /\ ItemExists(f)') => HasFailed(l, f)']_vars

\* a second matching run for item 1 found nothing although item 3 is OPEN
\* again: the pair (1, 3) failed and its session was forced to PENDING_CONFIRM
C1_Witness ==
    /\ workers[1].outcome = "no_match"
    /\ HasFailed(1, 3)
    /\ ItemExists(1) /\ ItemExists(3) /\ items[3].status = "OPEN"
    /\ \E s \in SessionIds : /\ sessions[s].exists
                             /\ sessions[s].found_item_id = 3
                             /\ sessions[s].status = "PENDING_CONFIRM"
                             /\ Forced(s) = 1

\* No confirm-return call can have been answered for session s since it
\* entered WAITING_RETURN: only one session was ever created, so no other row
\* can have blocked the deletion, and every earlier call would have ended the
\* waiting (RETURNED or RETURN_FAILED).
NoReturnConfirmedYet(s) ==
    /\ Len(sessions) = 1
    /\ sessions[s].exists
    /\ sessions[s].status = "WAITING_RETURN"

\* C2: a session in WAITING_RETURN becomes RETURNED only once both parties
\* have confirmed the return; the first confirm-return call of a waiting
\* period, made by one party, leaves the session not RETURNED.
C2_ReturnedOnlyAfterBoth ==
    [][\A s \in SessionIds :
         NoReturnConfirmedYet(s) => sessions'[s].status # "RETURNED"]_vars

\* C3: for each lost item at most one session that references it is in
\* PENDING_CONFIRM, also when matching is triggered again for the item.
C3_OnePendingPerLostItem ==
    \A l \in LostIds :
        Cardinality({s \in SessionsOf(l, {"PENDING_CONFIRM"}) :
                        sessions[s].lost_item_id = l}) <= 1

\* C4: under any interleaving of matching runs no item is referenced by two
\* sessions that are both ACTIVE.
C4_NoItemInTwoActiveSessions ==
    \A i \in ItemIds : Cardinality(SessionsOf(i, {"ACTIVE"})) <= 1

\* C5: whenever a session is PENDING_CONFIRM, its lost item and its found
\* item both have status NEGOTIATING.
C5_PendingItemsNegotiating ==
    \A s \in SessionIds :
        (sessions[s].exists /\ sessions[s].status = "PENDING_CONFIRM") =>
            \A i \in {sessions[s].lost_item_id, sessions[s].found_item_id} :
                ItemExists(i) /\ items[i].status = "NEGOTIATING"

\* C6: every item with status NEGOTIATING is referenced by a session that is
\* ACTIVE or PENDING_CONFIRM.  Stated for the states in which no background
\* task is between two of its transactions, where the claim is weakest.
C6_NegotiatingHasLiveSession ==
    (\A w \in Workers : workers[w].pc = "idle") =>
        \A i \in ItemIds :
            (items[i].exists /\ items[i].status = "NEGOTIATING") =>
                SessionsOf(i, LiveStatus) # {}

\* run_full_negotiation has returned to run_auto_matching in task w
Returned(w) == workers[w].pc \in {"notify", "failure"}

\* the first turn of a script that carries AGREE or REJECT, 0 if none of the
\* first MAX_NEGOTIATION_ROUNDS turns does
FirstTerminal(script) ==
    LET T == {n \in 1..MAX_NEGOTIATION_ROUNDS :
                 ScriptAt(script, n) \in {"AGREE", "REJECT"}}
    IN IF T = {} THEN 0 ELSE CHOOSE n \in T : \A m \in T : n <= m

\* C7: run_full_negotiation ends after at most MAX_NEGOTIATION_ROUNDS turns
\* whatever the decision function answers: the turn counter never passes the
\* limit, no turn starts at the limit, and on return the session is
\* PENDING_CONFIRM or FAILED with at most MAX_NEGOTIATION_ROUNDS turns in
\* its transcript.
C7_NegotiationBounded ==
    \A w \in Workers :
        /\ workers[w].round_num <= MAX_NEGOTIATION_ROUNDS
        /\ workers[w].pc = "turn" => workers[w].round_num < MAX_NEGOTIATION_ROUNDS
        /\ workers[w].pc \in {"turn", "status"} =>
               Len(sessions[workers[w].session_id].chat_log) <= MAX_NEGOTIATION_ROUNDS
        /\ Returned(w) =>
               /\ sessions[workers[w].session_id].status \in {"PENDING_CONFIRM", "FAILED"}
               /\ Len(sessions[workers[w].session_id].chat_log) <= MAX_NEGOTIATION_ROUNDS
               /\ workers[w].rounds <= MAX_NEGOTIATION_ROUNDS

\* the round limit was reached: twenty turns, none of them final
C7_Witness ==
    \E w \in Workers :
        /\ workers[w].pc = "failure"
        /\ workers[w].result = "MAX_ROUNDS"
        /\ sessions[workers[w].session_id].status = "FAILED"
        /\ Len(sessions[workers[w].session_id].chat_log) = MAX_NEGOTIATION_ROUNDS

\* C8: in every transcript the turn loop writes, the first turn is the
\* Seeker's and no two consecutive turns have the same sender.
C8_Alternation ==
    \A s \in SessionIds :
        LET log == sessions[s].chat_log IN
        /\ log # <<>> => log[1].sender = "Seeker"
        /\ \A k \in 1..(Len(log) - 1) : log[k].sender # log[k + 1].sender

\* a transcript of four turns and more whose third turn carries a tag outside
\* the protocol vocabulary
C8_Witness ==
    \E s \in SessionIds :
        /\ Len(sessions[s].chat_log) >= 4
        /\ sessions[s].chat_log[3].action_type = "WAVE"
        /\ sessions[s].chat_log[4].sender = "Finder"

\* C9: the first AGREE or REJECT of the turn sequence decides the outcome:
\* if it is turn k the session ends PENDING_CONFIRM (AGREE) or FAILED
\* (REJECT) with rounds = k and k turns in the transcript; without one in the
\* first MAX_NEGOTIATION_ROUNDS turns the session ends FAILED with
\* rounds = MAX_NEGOTIATION_ROUNDS.  The transcript carries the tags as the
\* decision function gave them.
C9_FirstTerminalDecides ==
    \A w \in Workers :
        Returned(w) =>
            LET s == sessions[workers[w].session_id]
                sc == workers[w].script
                k == FirstTerminal(sc)
            IN
            /\ \A n \in 1..Len(s.chat_log) : s.chat_log[n].action_type = ScriptAt(sc, n)
            /\ IF k > 0
               THEN /\ s.status = IF ScriptAt(sc, k) = "AGREE"
                                  THEN "PENDING_CONFIRM" ELSE "FAILED"
                    /\ workers[w].rounds = k
                    /\ Len(s.chat_log) = k
               ELSE /\ s.status = "FAILED"
                    /\ workers[w].rounds = MAX_NEGOTIATION_ROUNDS
                    /\ Len(s.chat_log) = MAX_NEGOTIATION_ROUNDS

\* AGREE on the very last turn, right after a turn without an action tag
C9_Witness ==
    \E w \in Workers :
        /\ workers[w].pc = "notify"
        /\ workers[w].rounds = MAX_NEGOTIATION_ROUNDS
        /\ sessions[workers[w].session_id].status = "PENDING_CONFIRM"
        /\ sessions[workers[w].session_id].chat_log[MAX_NEGOTIATION_ROUNDS - 1].action_type = "NONE"

\* the Failed Match record handle_failure writes for the session of task w
FailureRecord(w) ==
    [lost_item_id |-> workers[w].lost_item_id,
     found_item_id |-> sessions[workers[w].session_id].found_item_id,
     session_id |-> workers[w].session_id]

\* C10: when a negotiation run by run_auto_matching ended FAILED (REJECT or
\* round limit), the step that lets the task go on writes a Failed Match
\* record for that pair and that session and leaves both items OPEN; a task
\* about to attempt the next candidate has the record of the previous one.
C10_FailureRecordedBeforeNext ==
    /\ [](\A w \in Workers : workers[w].pc \in {"create", "exhausted"} =>
              FailureRecord(w) \in failed)
    /\ [][\A w \in Workers :
            (workers[w].pc = "failure" /\ workers'[w].pc \in {"create", "exhausted"}) =>
                /\ sessions[workers[w].session_id].status = "FAILED"
                /\ FailureRecord(w) \in failed'
                /\ items'[FailureRecord(w).lost_item_id].status = "OPEN"
                /\ items'[FailureRecord(w).found_item_id].status = "OPEN"]_vars

\* the first candidate ran into the round limit, the second is next
C10_Witness ==
    \E w \in Workers :
        /\ workers[w].pc = "create"
        /\ workers[w].result = "MAX_ROUNDS"
        /\ FailureRecord(w) \in failed
        /\ items[workers[w].lost_item_id].status = "OPEN"
        /\ items[FailureRecord(w).found_item_id].status = "OPEN"

\* the caller of a confirm call is a party of the session
Party(s, u) == Found(s) /\ Role(s, u) # "none"

\* C11: a confirm "mine" that is answered 200 records the caller's flag and
\* moves the session to CONFIRMED and both items to MATCHED exactly when both
\* flags are then true (otherwise status and items stay as they were); a
\* session in CONFIRMED or SCHEDULE_PENDING has both flags true.
C11_ConfirmedIffBothMine ==
    /\ [](\A s \in SessionIds :
            (sessions[s].exists /\ sessions[s].status \in {"CONFIRMED", "SCHEDULE_PENDING"})
                => BothConfirmed(sessions[s]))
    /\ [][\A s \in CallIds, u \in Users :
            (http'.code = 200 /\ confirm_item_call(s, u, TRUE)) =>
                /\ Role(s, u) = "seeker" => sessions'[s].seeker_confirmed = "True"
                /\ Role(s, u) = "finder" => sessions'[s].finder_confirmed = "True"
                /\ IF BothConfirmed(sessions'[s])
                   THEN /\ sessions'[s].status = "CONFIRMED"
                        /\ items'[sessions[s].lost_item_id].status = "MATCHED"
                        /\ items'[sessions[s].found_item_id].status = "MATCHED"
                   ELSE /\ sessions'[s].status = sessions[s].status
                        /\ items' = items]_vars

\* the second "mine" has just been answered: CONFIRMED, both items MATCHED
C11_Witness ==
    /\ http.op = "confirm" /\ http.code = 200
    /\ \E s \in SessionIds :
         /\ sessions[s].status = "CONFIRMED"
         /\ BothConfirmed(sessions[s])
         /\ items[sessions[s].lost_item_id].status = "MATCHED"
         /\ items[sessions[s].found_item_id].status = "MATCHED"

\* C12: a "not mine" by either party of a PENDING_CONFIRM session makes the
\* session REJECTED, writes a Failed Match record for its pair and leaves
\* both items OPEN.
C12_NotMineRejects ==
    [][\A s \in CallIds, u \in Users :
         (/\ Party(s, u)
          /\ sessions[s].status = "PENDING_CONFIRM"
          /\ confirm_item_call(s, u, FALSE)) =>
             /\ http'.code = 200
             /\ sessions'[s].status = "REJECTED"
             /\ HasFailed(sessions[s].lost_item_id, sessions[s].found_item_id)'
             /\ items'[sessions[s].lost_item_id].status = "OPEN"
             /\ items'[sessions[s].found_item_id].status = "OPEN"]_vars

\* the agents agreed, then the finder answered "not mine"
C12_Witness ==
    /\ http.op = "confirm" /\ http.code = 200
    /\ workers[1].outcome = "success"
    /\ \E s \in SessionIds :
         /\ sessions[s].status = "REJECTED"
         /\ sessions[s].finder_confirmed = "False"
         /\ HasFailed(sessions[s].lost_item_id, sessions[s].found_item_id)
         /\ items[sessions[s].lost_item_id].status = "OPEN"
         /\ items[sessions[s].found_item_id].status = "OPEN"

\* C13: a confirm call by a party on a session that is not PENDING_CONFIRM
\* is answered with an error and leaves the database as it was.
C13_ConfirmOnlyWhilePending ==
    [][\A s \in CallIds, u \in Users, b \in BOOLEAN :
         (/\ Party(s, u)
          /\ sessions[s].status # "PENDING_CONFIRM"
          /\ confirm_item_call(s, u, b)) =>
             (http'.code # 200 /\ UNCHANGED db)]_vars

TerminalStatus == {"FAILED", "REJECTED", "RETURN_FAILED", "RETURNED"}

\* status, confirmation flags and transcript of a session row
Protected(sess) ==
    <<sess.status, sess.seeker_confirmed, sess.finder_confirmed, sess.chat_log>>

\* the step is the forced override of session s, as force_match writes it
ForcedOverride(s) ==
    /\ sessions[s].status \in {"FAILED", "REJECTED"}
    /\ sessions'[s] = [sessions[s] EXCEPT !.status = "PENDING_CONFIRM",
                                          !.seeker_confirmed = "True",
                                          !.chat_log = Append(@, SystemEntry)]

\* C14: once a session is FAILED, REJECTED, RETURN_FAILED or RETURNED, no
\* step changes its status, flags or transcript except the forced override
\* of a FAILED or REJECTED session.
C14_TerminalImmutable ==
    [][\A s \in SessionIds :
         (/\ sessions[s].exists /\ sessions'[s].exists
          /\ sessions[s].status \in TerminalStatus
          /\ Protected(sessions'[s]) # Protected(sessions[s])) =>
             ForcedOverride(s)]_vars

\* C15: a session with a confirmation flag that is false is REJECTED, FAILED
\* or RETURN_FAILED.
C15_FalseFlagMeansFailed ==
    \A s \in SessionIds :
        (/\ sessions[s].exists
         /\ "False" \in {sessions[s].seeker_confirmed, sessions[s].finder_confirmed}) =>
            sessions[s].status \in {"REJECTED", "FAILED", "RETURN_FAILED"}

\* the flag confirm_item writes for the caller
OwnFlag(s, u) == IF Role(s, u) = "seeker" THEN sessions[s].seeker_confirmed
                 ELSE sessions[s].finder_confirmed

OtherFlag(s, u) == IF Role(s, u) = "seeker" THEN sessions[s].finder_confirmed
                   ELSE sessions[s].seeker_confirmed

\* C16: a party that has confirmed "mine" on a PENDING_CONFIRM session and
\* confirms "mine" again before the other party has acted changes nothing:
\* the call is answered 200 and the database is as after the first call.
C16_SecondMineChangesNothing ==
    [][\A s \in CallIds, u \in Users :
         (/\ Party(s, u)
          /\ sessions[s].status = "PENDING_CONFIRM"
          /\ OwnFlag(s, u) = "True" /\ OtherFlag(s, u) = "None"
          /\ confirm_item_call(s, u, TRUE)) =>
             (http'.code = 200 /\ UNCHANGED db)]_vars

\* the finder has confirmed "mine", the seeker has not acted: PENDING_CONFIRM
\* with both items locked
C16_Witness ==
    /\ http.op = "confirm" /\ http.code = 200
    /\ \E s \in SessionIds :
         /\ sessions[s].status = "PENDING_CONFIRM"
         /\ sessions[s].finder_confirmed = "True"
         /\ sessions[s].seeker_confirmed = "None"
         /\ items[sessions[s].lost_item_id].status = "NEGOTIATING"
         /\ items[sessions[s].found_item_id].status = "NEGOTIATING"

\* the call was refused: an error status and the database as it was
Rejected == http'.code >= 400 /\ UNCHANGED db

\* C17: a forced override succeeds only for the owner of the session's lost
\* item and only on a FAILED or REJECTED session; it then leaves the session
\* PENDING_CONFIRM with seeker_confirmed true and one audit entry of sender
\* "System" appended to the otherwise unchanged transcript; in every other
\* case it is answered with an error and changes nothing.
C17_ForcedOverride ==
    [][\A s \in CallIds, u \in Users :
         force_match_call(s, u) =>
             IF /\ Found(s)
                /\ Role(s, u) = "seeker"
                /\ sessions[s].status \in {"FAILED", "REJECTED"}
             THEN /\ http'.code = 200
                  /\ sessions'[s].status = "PENDING_CONFIRM"
                  /\ sessions'[s].seeker_confirmed = "True"
                  /\ Len(sessions'[s].chat_log) = Len(sessions[s].chat_log) + 1
                  /\ sessions'[s].chat_log[Len(sessions'[s].chat_log)].sender = "System"
                  /\ SubSeq(sessions'[s].chat_log, 1, Len(sessions[s].chat_log))
                         = sessions[s].chat_log
             ELSE Rejected]_vars

\* a session the agents ended with REJECT, forced by the seeker: the turn of
\* the dialogue, then the audit entry
C17_Witness ==
    /\ http.op = "force_match" /\ http.code = 200
    /\ \E s \in SessionIds :
         /\ sessions[s].status = "PENDING_CONFIRM"
         /\ sessions[s].seeker_confirmed = "True"
         /\ Len(sessions[s].chat_log) = 2
         /\ sessions[s].chat_log[1].action_type = "REJECT"
         /\ sessions[s].chat_log[2].sender = "System"

\* C18: every operation on a session is refused without a change when the
\* caller owns neither item of the session, and when the caller is a party
\* but not the role the operation names (propose: finder; approve, reject,
\* forced override: seeker).
C18_OnlyPartiesInRole ==
    [][\A s \in CallIds, u \in Users :
         /\ ~Party(s, u) =>
              /\ \A b \in BOOLEAN : confirm_item_call(s, u, b) => Rejected
              /\ \A b \in BOOLEAN : confirm_return_call(s, u, b) => Rejected
              /\ start_return_call(s, u) => Rejected
              /\ return_failed_call(s, u) => Rejected
         /\ ~(Found(s) /\ Role(s, u) = "finder") =>
              \A p \in Proposals : create_schedule_call(s, u, p) => Rejected
         /\ ~(Found(s) /\ Role(s, u) = "seeker") =>
              /\ force_match_call(s, u) => Rejected
              /\ approve_schedule_call(s, u) => Rejected
              /\ \A r \in Reasons : reject_schedule_call(s, u, r) => Rejected]_vars

\* C19: propose on a session that is not CONFIRMED, approve or reject on one
\* that is not SCHEDULE_PENDING and confirm-return on one that is not
\* WAITING_RETURN are answered with an error, change nothing in the
\* database and send no notification.
C19_WrongStateRefused ==
    [][\A s \in CallIds, u \in Users :
         /\ (/\ http'.op = "create_schedule"
             /\ Found(s) /\ sessions[s].status # "CONFIRMED"
             /\ \E p \in Proposals : create_schedule_call(s, u, p))
                => (Rejected /\ http'.sent = {})
         /\ (/\ http'.op = "approve_schedule"
             /\ Found(s) /\ sessions[s].status # "SCHEDULE_PENDING"
             /\ approve_schedule_call(s, u))
                => (Rejected /\ http'.sent = {})
         /\ (/\ http'.op = "reject_schedule"
             /\ Found(s) /\ sessions[s].status # "SCHEDULE_PENDING"
             /\ \E r \in Reasons : reject_schedule_call(s, u, r))
                => (Rejected /\ http'.sent = {})
         /\ (/\ http'.op = "confirm_return"
             /\ Found(s) /\ sessions[s].status # "WAITING_RETURN"
             /\ \E b \in BOOLEAN : confirm_return_call(s, u, b))
                => (Rejected /\ http'.sent = {})]_vars

\* the seeker's approval of a session that is only CONFIRMED was refused
C19_Witness ==
    /\ http = [op |-> "approve_schedule", code |-> 400, sent |-> {}]
    /\ \E s \in SessionIds : sessions[s].exists /\ sessions[s].status = "CONFIRMED"

\* C20: whenever a session is CONFIRMED, a propose-schedule call by the
\* finder is accepted.
C20_FinderCanPropose ==
    \A s \in SessionIds :
        (/\ sessions[s].exists
         /\ sessions[s].status = "CONFIRMED"
         /\ found_item(s) # NULL) =>
            create_schedule_status(s, owner_id(found_item(s))) = 200

\* C21: from a CONFIRMED session, propose(p1) by the finder, reject(reason)
\* by the seeker, propose(p2) by the finder and approve by the seeker leave
\* the session WAITING_RETURN with one schedule, APPROVED, carrying p2 and
\* no rejection reason.
C21_RoundTrip ==
    calls = 4 =>
        /\ sessions[TripSession].status = "WAITING_RETURN"
        /\ Len(schedules[TripSession]) = 1
        /\ schedules[TripSession][1].status = "APPROVED"
        /\ schedules[TripSession][1].proposal = "p2"
        /\ schedules[TripSession][1].reject_reason = ""

\* C22: a session never has more than one Return Schedule row, and a
\* propose-schedule call changes an existing schedule only when that
\* schedule is not PENDING.
C22_OneSchedulePerSession ==
    /\ [](\A s \in SessionIds : Len(schedules[s]) <= 1)
    /\ [][\A s \in CallIds, u \in Users, p \in Proposals :
            (/\ http'.op = "create_schedule"
             /\ Found(s) /\ existing(s) # 0
             /\ create_schedule_call(s, u, p)
             /\ schedules'[s] # schedules[s]) =>
                schedules[s][existing(s)].status # "PENDING"]_vars

\* the second proposal of the round trip has replaced the rejected one: one
\* row, PENDING again, with the new proposal and no reason
C22_Witness ==
    /\ calls = 3
    /\ http.op = "create_schedule" /\ http.code = 200
    /\ Len(schedules[TripSession]) = 1
    /\ schedules[TripSession][1].status = "PENDING"
    /\ schedules[TripSession][1].proposal = "p2"
    /\ schedules[TripSession][1].reject_reason = ""

\* C23: a reject-schedule call of the seeker on a SCHEDULE_PENDING session
\* is refused without a change when the reason is empty or only blanks;
\* with any other reason it sets the schedule REJECTED with the trimmed
\* reason, returns the session to CONFIRMED and sends one notification, to
\* the finder.
C23_RejectNeedsReason ==
    [][\A s \in CallIds, u \in Users :
         (/\ http'.op = "reject_schedule"
          /\ Found(s) /\ Role(s, u) = "seeker"
          /\ sessions[s].status = "SCHEDULE_PENDING") =>
            /\ \A r \in {"", " "} :
                 reject_schedule_call(s, u, r) => (Rejected /\ http'.sent = {})
            /\ \A r \in {"busy", " busy "} :
                 reject_schedule_call(s, u, r) =>
                    /\ http'.code = 200
                    /\ Len(schedules'[s]) = 1
                    /\ schedules'[s][1].status = "REJECTED"
                    /\ schedules'[s][1].reject_reason = "busy"
                    /\ sessions'[s].status = "CONFIRMED"
                    /\ http'.sent = {[to |-> owner_id(sessions[s].found_item_id),
                                      type |-> "NEGOTIATION_UPDATE"]}]_vars

\* the seeker has just rejected the finder's proposal
C23_Witness ==
    /\ http = [op |-> "reject_schedule", code |-> 200,
               sent |-> {[to |-> "bob", type |-> "NEGOTIATION_UPDATE"]}]
    /\ \E s \in SessionIds :
         /\ sessions[s].status = "CONFIRMED"
         /\ Len(schedules[s]) = 1
         /\ schedules[s][1].status = "REJECTED"
         /\ schedules[s][1].reject_reason = "busy"

\* C24: when a session becomes RETURNED its two item references are null,
\* both items are gone, and no image row and no Failed Match record refers
\* to either item.
C24_ReturnedRemovesItems ==
    [][\A s \in SessionIds :
         (/\ sessions[s].exists /\ sessions[s].status # "RETURNED"
          /\ sessions'[s].exists /\ sessions'[s].status = "RETURNED") =>
            LET pair == {sessions[s].lost_item_id, sessions[s].found_item_id}
            IN /\ sessions'[s].lost_item_id = NULL
               /\ sessions'[s].found_item_id = NULL
               /\ \A i \in pair \cap ItemIds :
                    /\ ~items'[i].exists
                    /\ items'[i].images = 0
               /\ \A r \in failed' : /\ r.lost_item_id \notin pair
                                     /\ r.found_item_id \notin pair]_vars

\* the return of the pair (1, 3), both with an image, has been confirmed
C24_Witness ==
    /\ http.op = "confirm_return" /\ http.code = 200
    /\ \E s \in SessionIds :
         /\ sessions[s].exists /\ sessions[s].status = "RETURNED"
         /\ sessions[s].lost_item_id = NULL
         /\ sessions[s].found_item_id = NULL
    /\ image_paths(1) = 1 /\ image_paths(3) = 1
    /\ ~items[1].exists /\ items[1].images = 0
    /\ ~items[3].exists /\ items[3].images = 0

\* C25: a "not returned" by either party of a WAITING_RETURN session makes
\* the session RETURN_FAILED with its completion time set, leaves both
\* items OPEN and writes a Failed Match record for the pair, whatever the
\* confirmation flags were.
C25_NotReturnedFails ==
    [][\A s \in CallIds, u \in Users :
         (/\ http'.op = "confirm_return"
          /\ Party(s, u)
          /\ sessions[s].status = "WAITING_RETURN"
          /\ confirm_return_call(s, u, FALSE)) =>
             /\ http'.code = 200
             /\ sessions'[s].status = "RETURN_FAILED"
             /\ sessions'[s].completed_at
             /\ items'[sessions[s].lost_item_id].status = "OPEN"
             /\ items'[sessions[s].found_item_id].status = "OPEN"
             /\ HasFailed(sessions[s].lost_item_id, sessions[s].found_item_id)']_vars

\* the seeker answered "not returned" although both flags were true
C25_Witness ==
    /\ http.op = "confirm_return" /\ http.code = 200
    /\ \E s \in SessionIds :
         /\ sessions[s].status = "RETURN_FAILED"
         /\ sessions[s].completed_at
         /\ sessions[s].seeker_confirmed = "False"
         /\ sessions[s].finder_confirmed = "True"
         /\ items[sessions[s].lost_item_id].status = "OPEN"
         /\ items[sessions[s].found_item_id].status = "OPEN"
         /\ HasFailed(sessions[s].lost_item_id, sessions[s].found_item_id)

\* the step ends the run of worker w (return or exception)
RunEnds(w) == workers[w].pc # "idle" /\ workers'[w].pc = "idle"

\* how many times the notification is in the sequence
Count(seq, x) == Cardinality({k \in 1..Len(seq) : seq[k] = x})

\* C27: a run of run_auto_matching on an existing lost item that has ended
\* without a session reaching PENDING_CONFIRM leaves the lost item OPEN and
\* has sent exactly one NO_MATCH notification to its owner; a run that has
\* ended with a PENDING_CONFIRM session has sent exactly one MATCH_FOUND
\* notification to each of the two owners (stated for the runs whose lost
\* item and sessions still exist when they end).
C27_RunNotifies ==
    [][\A w \in Workers :
         (/\ RunEnds(w)
          /\ workers'[w].outcome # "missing"
          /\ items'[workers[w].lost_item_id].exists
          /\ \A s \in SessionIds : sessions'[s].exists) =>
            LET l == workers[w].lost_item_id
                sent == workers'[w].sent
            IN IF workers[w].pc = "notify"
               THEN LET f == workers[w].matches[workers[w].idx]
                    IN /\ Count(sent, notification(l, "MATCH_FOUND")) = 1
                       /\ Count(sent, [to |-> owner_id(f), type |-> "MATCH_FOUND"]) = 1
                       /\ Len(sent) = 2
               ELSE /\ items'[l].status = "OPEN"
                    /\ Count(sent, notification(l, "NO_MATCH")) = 1
                    /\ Len(sent) = 1]_vars

\* the step opens a session for the run of worker w
Opens(w) == workers[w].pc \in {"find", "create"} /\ workers'[w].pc = "turn"

\* C26: a run opens its sessions one at a time in the ranked order of its
\* candidates, one session per candidate: the first for the best candidate,
\* each next one for the next candidate and only when the previous session
\* of the run is FAILED; after a session that ended PENDING_CONFIRM the run
\* ends without opening another.
C26_OneSessionPerCandidate ==
    [][\A w \in Workers :
         /\ Opens(w) =>
              LET l == workers[w].lost_item_id
                  m == workers'[w].matches
                  k == workers'[w].idx
                  prev == workers[w].session_id
              IN /\ \A i, j \in 1..Len(m) :
                       i < j => /\ m[i] # m[j]
                                /\ calculate_match_score(l, m[i])
                                       >= calculate_match_score(l, m[j])
                 /\ sessions' = Append(sessions, NewSession(l, m[k]))
                 /\ workers'[w].session_id = Len(sessions')
                 /\ IF workers[w].pc = "find"
                    THEN k = 1
                    ELSE /\ k > 1
                         /\ sessions[prev].found_item_id = m[k - 1]
                         /\ sessions[prev].lost_item_id = l
                         /\ sessions[prev].status = "FAILED"
         /\ (/\ workers[w].session_id # NULL
             /\ sessions[workers[w].session_id].status = "PENDING_CONFIRM"
             /\ workers'[w] # workers[w]) =>
                (workers'[w].pc = "idle" /\ sessions' = sessions)]_vars

\* the run for lost item 2 is at its second candidate: the session with the
\* better candidate 3 is FAILED, the session with candidate 4 is open
C26_Witness ==
    \E w \in Workers :
        /\ workers[w].pc = "turn"
        /\ workers[w].lost_item_id = 2
        /\ workers[w].matches = <<3, 4>>
        /\ workers[w].idx = 2
        /\ \E s \in SessionIds :
             /\ s < workers[w].session_id
             /\ sessions[s].lost_item_id = 2 /\ sessions[s].found_item_id = 3
             /\ sessions[s].status = "FAILED"
        /\ sessions[workers[w].session_id].found_item_id = 4
        /\ sessions[workers[w].session_id].status = "ACTIVE"

\* the party of session s that is not the caller u
OtherParty(s, u) ==
    IF Role(s, u) = "seeker" THEN owner_id(sessions[s].found_item_id)
    ELSE owner_id(sessions[s].lost_item_id)

\* the response carries a notification to the other party
NotifiesOther(s, u) == \E n \in http'.sent : n.to = OtherParty(s, u)

\* C28: a "not mine" on a PENDING_CONFIRM session, the rejection of a
\* schedule and a "not returned" on a WAITING_RETURN session each send, in
\* the same call, at least one notification to the other party.
C28_FailureNotifiesOther ==
    [][\A s \in CallIds, u \in Users :
         (Party(s, u) /\ http'.code = 200) =>
            /\ (/\ sessions[s].status = "PENDING_CONFIRM"
                /\ confirm_item_call(s, u, FALSE)) => NotifiesOther(s, u)
            /\ (/\ sessions[s].status = "SCHEDULE_PENDING"
                /\ \E r \in Reasons : reject_schedule_call(s, u, r))
                   => NotifiesOther(s, u)
            /\ (/\ sessions[s].status = "WAITING_RETURN"
                /\ confirm_return_call(s, u, FALSE)) => NotifiesOther(s, u)]_vars

\* the statuses of a session that has not ended
NonTerminalStatus == {"ACTIVE", "PENDING_CONFIRM", "CONFIRMED",
                      "SCHEDULE_PENDING", "WAITING_RETURN"}

\* C29: delete_item is refused without a change while a session that is
\* ACTIVE, PENDING_CONFIRM, CONFIRMED, SCHEDULE_PENDING or WAITING_RETURN
\* references the item, so an item is deleted only when every session
\* that references it is terminal.
C29_NoDeleteWithLiveSession ==
    [][\A i \in ItemIds, u \in Users :
         (/\ ItemExists(i)
          /\ SessionsOf(i, NonTerminalStatus) # {}
          /\ delete_item_call(i, u)) => Rejected]_vars

\* the outcome of the decision function in the turn worker w takes next
Outcome(w) == ScriptAt(workers[w].script, workers[w].round_num + 1)

\* C30: a fault of the decision function (exception, timeout, malformed or
\* missing fields) does not end the negotiation: the turn is recorded with
\* the action ASK and the default content and the dialogue goes on; a
\* session whose decision function fails on every turn reaches the round
\* limit and ends FAILED, with its Failed Match record and both items OPEN.
C30_FaultsAbsorbed ==
    [][\A w \in {1} :
         LET s == workers[w].session_id IN
         /\ (workers[w].pc = "turn" /\ Outcome(w) \in FaultyOutcomes) =>
               /\ workers'[w].pc # "idle"
               /\ Len(sessions'[s].chat_log) = workers[w].round_num + 1
               /\ LET turn == sessions'[s].chat_log[Len(sessions'[s].chat_log)]
                  IN turn.action_type = "ASK" /\ turn.content = "default"
               /\ workers'[w].result \in {"none", "MAX_ROUNDS"}
         /\ (workers[w].script \in EveryTurnFaulty /\ workers[w].pc = "failure") =>
               /\ workers[w].result = "MAX_ROUNDS"
               /\ Len(sessions[s].chat_log) = MAX_NEGOTIATION_ROUNDS
               /\ sessions'[s].status = "FAILED"
               /\ HasFailed(sessions[s].lost_item_id, sessions[s].found_item_id)'
               /\ items'[sessions[s].lost_item_id].status = "OPEN"
               /\ items'[sessions[s].found_item_id].status = "OPEN"]_vars

\* C31: find_matches(L, limit) returns only found items that are OPEN or
\* MATCHING, belong to another owner than L, have no Failed Match record
\* with L and score at least MIN_MATCH_SCORE (a score equal to the
\* threshold is kept); it returns at most limit of them, no one twice, and
\* the ones it leaves out score no higher than the ones it returns.
C31_FindMatchesSound ==
    [][\A l \in LostIds, limit \in 0..MaxLimit :
         FindMatches(1, l, limit) =>
           LET m == workers'[1].matches
               eligible == {f \in ItemIds :
                              /\ items[f].exists
                              /\ ItemType(f) = "FOUND"
                              /\ items[f].status \in {"OPEN", "MATCHING"}
                              /\ owner_id(f) # owner_id(l)
                              /\ ~HasFailed(l, f)
                              /\ ~(calculate_match_score(l, f) < MIN_MATCH_SCORE)}
               returned == {m[k] : k \in 1..Len(m)}
           IN /\ returned \subseteq eligible
              /\ Cardinality(returned) = Len(m)
              /\ Len(m) <= limit
              /\ Len(m) = limit \/ returned = eligible
              /\ \A f \in eligible \ returned, g \in returned :
                    calculate_match_score(l, g) >= calculate_match_score(l, f)]_vars

\* find_matches(2, 1) returned item 3 alone: item 4, whose score is exactly
\* the threshold, was a candidate too and fell to the limit; item 5 scores
\* higher than both and belongs to the owner of the lost item; item 6 is
\* open and scores just below the threshold
C31_Witness ==
    /\ workers[1].outcome = "found"
    /\ workers[1].lost_item_id = 2
    /\ workers[1].matches = <<3>>
    /\ calculate_match_score(2, 4) = MIN_MATCH_SCORE
    /\ items[4].exists /\ items[4].status = "OPEN" /\ ~HasFailed(2, 4)
    /\ items[5].exists /\ items[5].status = "OPEN"
    /\ calculate_match_score(2, 5) > calculate_match_score(2, 3)
    /\ items[6].exists /\ items[6].status = "OPEN" /\ ~HasFailed(2, 6)

\* C32: the list find_matches returns is ordered by descending score, and
\* two candidates with the same score appear in submission order (the item
\* created first, that is the one with the smaller id, comes first).
C32_RankedThenSubmissionOrder ==
    [][\A l \in LostIds, limit \in 0..MaxLimit :
         FindMatches(1, l, limit) =>
           LET m == workers'[1].matches IN
           \A j, k \in 1..Len(m) :
              j < k =>
                 \/ calculate_match_score(l, m[j]) > calculate_match_score(l, m[k])
                 \/ /\ calculate_match_score(l, m[j]) = calculate_match_score(l, m[k])
                    /\ m[j] < m[k]]_vars

\* C33: whatever optional texts (description, AI description, location) the
\* two items have and whatever the similarities are, calculate_match_score
\* returns the weighted average, rounded to 4 decimals, of the comparisons
\* made: the title (0.3) and each optional field both items have (0.3, 0.3,
\* 0.1), divided by the weights used. It lies in [0, 1], is 1 when every
\* comparison made is 1, and is exactly 0 when no optional field is
\* comparable and the titles have nothing in common.
C33_WeightedAverage ==
    ret.called =>
        LET a == ret.args
            used == {"title"} \cup {x \in OptionalFields : a.lost[x] /\ a.found[x]}
            part(x, w) == IF x \in used THEN w ELSE 0
            total == part("title", 3) + part("description", 3)
                     + part("ai_description", 3) + part("location", 1)
            num == part("title", 3 * a.sim["title"])
                   + part("description", 3 * a.sim["description"])
                   + part("ai_description", 3 * a.sim["ai_description"])
                   + part("location", a.sim["location"])
            diff == ret.value * SimSteps * total - 10000 * num
        IN /\ ret.value \in 0..10000
           /\ 2 * diff <= SimSteps * total
           /\ -2 * diff <= SimSteps * total
           /\ (\A x \in used : a.sim[x] = SimSteps) => ret.value = 10000
           /\ (used = {"title"} /\ a.sim["title"] = 0) => ret.value = 0

\* the lost item has a description and the found item has none, neither has
\* an AI description, both have a location: equal titles and locations with
\* nothing in common score 0.3 / 0.4
C33_Witness ==
    /\ ret.called
    /\ ret.args.lost["description"] /\ ~ret.args.found["description"]
    /\ ~ret.args.lost["ai_description"] /\ ~ret.args.found["ai_description"]
    /\ ret.args.lost["location"] /\ ret.args.found["location"]
    /\ ret.args.sim["title"] = SimSteps
    /\ ret.args.sim["location"] = 0
    /\ ret.value = 7500

\* C34: after every turn of run_full_negotiation the memory of the Seeker
\* agent, the memory of the Finder agent and the transcript of the session
\* are the same sequence, and the turn has extended the transcript by
\* exactly one entry, sent by the agent whose turn it was.
C34_MemoriesMirrorTranscript ==
    [][\A w \in Workers :
         (/\ workers[w].pc = "turn"
          /\ workers'[w].round_num = workers[w].round_num + 1) =>
            LET s == workers[w].session_id
                before == sessions[s].chat_log
                after == sessions'[s].chat_log
            IN /\ workers'[w].memory["Seeker"] = after
               /\ workers'[w].memory["Finder"] = after
               /\ Len(after) = Len(before) + 1
               /\ SubSeq(after, 1, Len(before)) = before
               /\ after[Len(after)].sender = current_agent(before)]_vars

\* C35: RETURNED is absorbing. Every operation a user invokes on a RETURNED
\* session (confirm, force-match, propose, approve or reject a schedule,
\* start-return, confirm-return, return-failed) is answered with an error
\* and leaves the session and its schedule as they were.
C35_ReturnedAbsorbing ==
    [][\A s \in SessionIds :
         (sessions[s].exists /\ sessions[s].status = "RETURNED") =>
            \A u \in Users :
               (\/ \E b \in BOOLEAN : confirm_item_call(s, u, b)
                \/ force_match_call(s, u)
                \/ \E p \in Proposals : create_schedule_call(s, u, p)
                \/ approve_schedule_call(s, u)
                \/ \E r \in Reasons : reject_schedule_call(s, u, r)
                \/ start_return_call(s, u)
                \/ \E b \in BOOLEAN : confirm_return_call(s, u, b)
                \/ return_failed_call(s, u))
               => /\ http'.code >= 400
                  /\ sessions'[s] = sessions[s]
                  /\ schedules'[s] = schedules[s]]_vars

\* the session is RETURNED, with the schedule that was approved, and a
\* start-return called on it afterwards was answered 400
C35_Witness ==
    \E s \in SessionIds :
        /\ sessions[s].exists /\ sessions[s].status = "RETURNED"
        /\ schedules[s] # <<>>
        /\ http = [op |-> "start_return", code |-> 400, sent |-> {}]

\* C36: a session has a Return Schedule with status PENDING exactly when
\* the status of the session is SCHEDULE_PENDING.
C36_PendingIffSchedulePending ==
    \A s \in SessionIds :
        sessions[s].exists =>
            ((pending_schedule(s) # 0) <=> (sessions[s].status = "SCHEDULE_PENDING"))

\* C37: a session in WAITING_RETURN has a Return Schedule whose status is
\* APPROVED, and a session enters WAITING_RETURN only when its seeker
\* approves a pending proposal.
C37_WaitingReturnApproved ==
    /\ [](\A s \in SessionIds :
            (sessions[s].exists /\ sessions[s].status = "WAITING_RETURN")
               => \E k \in 1..Len(schedules[s]) :
                     schedules[s][k].status = "APPROVED")
    /\ [][\A s \in SessionIds :
            (/\ sessions'[s].exists
             /\ sessions'[s].status = "WAITING_RETURN"
             /\ sessions[s].status # "WAITING_RETURN")
               => /\ http'.op = "approve_schedule" /\ http'.code = 200
                  /\ pending_schedule(s) # 0
                  /\ \E u \in Users :
                        Role(s, u) = "seeker" /\ approve_schedule_call(s, u)]_vars

\* C38: no item is referenced by two different sessions that are both
\* CONFIRMED, SCHEDULE_PENDING or WAITING_RETURN: an item is matched to at
\* most one counterpart at a time.
C38_OneCounterpart ==
    \A i \in ItemIds :
        Cardinality(SessionsOf(i, {"CONFIRMED", "SCHEDULE_PENDING",
                                   "WAITING_RETURN"})) <= 1

\* C39: every lost-item or found-item reference of a session that is not
\* NULL points to an item that exists; a completed return leaves no other
\* session referencing one of the removed items.
C39_NoDanglingReference ==
    \A s \in SessionIds :
        sessions[s].exists =>
            /\ sessions[s].lost_item_id # NULL => ItemExists(sessions[s].lost_item_id)
            /\ sessions[s].found_item_id # NULL => ItemExists(sessions[s].found_item_id)

\* C40: return-failed called by the seeker or the finder of a
\* WAITING_RETURN session succeeds and leaves the session RETURN_FAILED with
\* its completion time set, both items OPEN and a Failed Match record for
\* the pair.
C40_ReturnFailedCompletes ==
    [][\A s \in SessionIds, u \in Users :
         (/\ http'.op = "return_failed"
          /\ sessions[s].exists
          /\ sessions[s].status = "WAITING_RETURN"
          /\ Role(s, u) # "none"
          /\ return_failed_call(s, u))
            => /\ http'.code = 200
               /\ sessions'[s].status = "RETURN_FAILED"
               /\ sessions'[s].completed_at
               /\ items'[sessions[s].lost_item_id].status = "OPEN"
               /\ items'[sessions[s].found_item_id].status = "OPEN"
               /\ \E r \in failed' :
                     /\ r.lost_item_id = sessions[s].lost_item_id
                     /\ r.found_item_id = sessions[s].found_item_id]_vars

====
